---- MODULE Spec2Model ----
(***************************************************************************)
(* Model of info_gain (notebooks/2b-Decision-Trees-and-Random-Forests)     *)
(* and of the ID3 split step that the notebook describes around it.        *)
(*                                                                         *)
(* Numbers.  Floating-point values are modelled in fixed point, in units   *)
(* of 1/Scale.  A probability class_counts[c]/nc is kept as the exact      *)
(* fraction <<num, den>>; logarithms come from tables of round(log(k) *    *)
(* Scale).  Each product/quotient of the code rounds down once, so a       *)
(* value of the model is within a few units of 1/Scale of the real one.    *)
(*                                                                         *)
(* Data.  X is the sequence of rows (position p of the model is position   *)
(* p-1 of the DataFrame), each row a record feature -> value.  y is a      *)
(* pandas Series: y.index holds the row labels, y.values the classes, and  *)
(* y[i] on an integer index is a lookup BY LABEL.                          *)
(*                                                                         *)
(* Order.  list(set(X[feature])) enumerates the values in an order the     *)
(* language does not fix; a call picks any order.  Fixed-point sums do not *)
(* depend on that order, float sums may differ in the last bit.            *)
(***************************************************************************)
EXTENDS Integers, Sequences, FiniteSets, TLC

\* ------------------------------------------------------------- bounds ---
MaxRows == 3          \* rows of the parent dataset the inputs are cut from
MaxIterations == 2    \* largest value of batch_train's iterations
MaxBatch == 2         \* largest value of batch_train's batchsize
MaxDocs == 2          \* largest number of review files

\* ------------------------------------------------------- input domain ---
Features == {"embarked", "adult"}
FeatureValues(f) == IF f = "embarked" THEN {1, 2} ELSE {0, 1}
Classes == {0, 1}     \* survived: 1, died: 0

Scale == 1000 * 1000   \* fixed-point unit: one value unit is 1/Scale
Tol == Scale \div 2000  \* "approximately": within 0.0005
LnTable == <<0, 693147, 1098612, 1386294, 1609438, 1791759, 1945910, 2079442, 2197225>>
Log2Table == <<0, 1000000, 1584963, 2000000, 2321928, 2584963, 2807355, 3000000, 3169925>>

VARIABLES X, y, pc, feature, n, values, ivalue, feature_counts, E, new_y,
          class_counts, gain, result, chosen

\* the ID3 construction: its arguments, the calls still to make, its result
VARIABLES candidates, tree, stack, id3pc, prev

id3Vars == <<candidates, tree, stack, id3pc, prev>>

\* batch_train: its arguments (clf is a reference into estimators, the
\* estimator objects that exist), its locals, the position of range's
\* iterator (range_i), the latest partial_fit call, the object returned,
\* and the files it holds open (open_files, in the order of opening)
VARIABLES clf, fnames, labels, iterations, batchsize, estimators, c_clf,
          range_i, i, rnd_idx, documents, fitted, returned, bpc, open_files

batchVars == <<clf, fnames, labels, iterations, batchsize, estimators, c_clf,
               range_i, i, rnd_idx, documents, fitted, returned, bpc,
               open_files>>

infoVars == <<pc, feature, n, values, ivalue, feature_counts, E, new_y,
              class_counts, gain, result, chosen>>

\* what no step of info_gain or of its caller's selection touches
outsideInfoGain == <<id3Vars, batchVars>>

vars == <<X, y, pc, feature, n, values, ivalue, feature_counts, E, new_y,
          class_counts, gain, result, chosen, id3Vars, batchVars>>

\* ------------------------------------------------------------ helpers ---
RECURSIVE SumSeq(_)
SumSeq(s) == IF s = <<>> THEN 0 ELSE Head(s) + SumSeq(Tail(s))

RECURSIVE SortedSeq(_)
SortedSeq(S) ==
    IF S = {} THEN <<>>
    ELSE LET m == CHOOSE a \in S : \A b \in S : a <= b
         IN  <<m>> \o SortedSeq(S \ {m})

Zeros(k) == [j \in 1..k |-> 0]

AllSameLabels(s) == \A a, b \in 1..Len(s) : s[a] = s[b]

Abs(a) == IF a < 0 THEN -a ELSE a

\* A missing value of a feature (pandas stores NaN, which equals nothing,
\* itself included).
NaN == -1

\* d==value
Eq(d, value) == d # NaN /\ value # NaN /\ d = value

\* Every order in which list(set(...)) may enumerate the set S.
ListOfSet(S) ==
    {s \in [1..Cardinality(S) -> S] : \A a, b \in 1..Cardinality(S) : a # b => s[a] # s[b]}

\* X[feature].values : the column as a positional array.
Column(XX, f) == [p \in 1..Len(XX) |-> XX[p][f]]

\* list(X[feature]) in place of list(set(X[feature])): one entry per row
ColumnAsList(col) == {col}

\* list(set(X[feature])): every value once, in any order; the NaN of k rows
\* are one to k entries of the set (one per distinct float object).
SetAsList(col) ==
    LET vals == {col[p] : p \in 1..Len(col)} \ {NaN}
        k == Cardinality({p \in 1..Len(col) : col[p] = NaN})
    IN  IF k = 0 THEN ListOfSet(vals)
        ELSE UNION {
               {s \in [1..(Cardinality(vals) + j) -> vals \cup {NaN}] :
                   \A v \in vals : Cardinality({a \in DOMAIN s : s[a] = v}) = 1}
               : j \in 1..k }

\* y[i] : label-based lookup in the Series; HasLabel is "no KeyError".
HasLabel(yy, key) == \E k \in 1..Len(yy.index) : yy.index[k] = key
GetItem(yy, key) == yy.values[CHOOSE k \in 1..Len(yy.index) : yy.index[k] = key]

\* The positions (1-based) of the rows with X[feature] == value.
MatchingRows(XX, f, value) ==
    SelectSeq([p \in 1..Len(XX) |-> p], LAMBDA p : Eq(XX[p][f], value))

\* [y[i] for i,d in enumerate(X[feature].values) if d==value]
NewYRaises(XX, yy, f, value) ==
    \E k \in 1..Len(MatchingRows(XX, f, value)) :
        ~HasLabel(yy, MatchingRows(XX, f, value)[k] - 1)
NewY(XX, yy, f, value) ==
    LET rows == MatchingRows(XX, f, value)
    IN  [k \in 1..Len(rows) |-> GetItem(yy, rows[k] - 1)]

\* class_values = list(set(new_y)); the classes are the small integers 0/1,
\* which a CPython set enumerates in increasing order.
ClassValuesList(ny) == ny
ClassValues(ny) == SortedSeq({ny[k] : k \in 1..Len(ny)})

\* the double loop filling class_counts
ClassCounts(cv, ny) ==
    [c \in 1..Len(cv) |-> Cardinality({k \in 1..Len(ny) : ny[k] = cv[c]})]

\* [class_counts[c] / nc for c in range(len(class_values))], as fractions
Probabilities(cc) == [c \in 1..Len(cc) |-> <<cc[c], SumSeq(cc)>>]

\* scipy.stats.entropy(pk) with no base: pk is normalised to sum 1 and
\* S = sum(-pk * ln(pk)), natural logarithm; 0 for an empty pk.
entropy(pk) ==
    LET nums == [c \in 1..Len(pk) |-> pk[c][1]]
        total == SumSeq(nums)
    IN  SumSeq([c \in 1..Len(pk) |->
            IF nums[c] = 0 THEN 0
            ELSE (nums[c] * (LnTable[total] - LnTable[nums[c]])) \div total])

\* gain += float(feature_counts[ivalue])/n * E[ivalue]
GainAccumNeg(g, fc, nn, e) == g - (fc * e) \div nn
GainAccum(g, fc, nn, e) == g + (fc * e) \div nn

\* --------------------------------------- what the notebook text defines ---
\* H(p) = - sum_i p_i log2(p_i), of the class frequencies of a label list
EntropyBits(S) ==
    LET cv == SortedSeq({S[k] : k \in 1..Len(S)})
        cc == ClassCounts(cv, S)
    IN  SumSeq([c \in 1..Len(cc) |->
            (cc[c] * (Log2Table[Len(S)] - Log2Table[cc[c]])) \div Len(S)])

\* S_x : the labels of the rows whose feature value is x, paired by position
LabelsAt(XX, yy, f, value) ==
    LET rows == MatchingRows(XX, f, value)
    IN  [k \in 1..Len(rows) |-> yy.values[rows[k]]]

\* the weighted entropy of the partitions, sum_x #(S_x)/#(S) Entropy(S_x)
Remainder(XX, yy, f) ==
    LET vs == SortedSeq({XX[p][f] : p \in 1..Len(XX)})
    IN  SumSeq([k \in 1..Len(vs) |->
            (Len(LabelsAt(XX, yy, f, vs[k])) * EntropyBits(LabelsAt(XX, yy, f, vs[k])))
                \div Len(XX)])

\* G(S,X) = Entropy(S) - sum_x #(S_x)/#(S) Entropy(S_x)
G(XX, yy, f) == IF Len(XX) = 0 THEN 0 ELSE EntropyBits(yy.values) - Remainder(XX, yy, f)

\* What the caller holds for each feature: the outcome of its latest call.
NoResult == [kind |-> "none", value |-> 0]

\* ------------------------------------------------------------- inputs ---
RowSet == {r \in [Features -> 0..2] : \A f \in Features : r[f] \in FeatureValues(f)}

\* The row labels a row subset of a parent dataset with labels
\* 0..MaxRows-1 retains, in their original order.
RetainedLabels == {SortedSeq(S) : S \in SUBSET (0..(MaxRows - 1))}

\* Rows of a dataset in which embarked is missing for some passengers.
MissingRowSet == {r \in [Features -> -1..2] :
                    r["embarked"] \in FeatureValues("embarked") \cup {NaN} /\ r["adult"] = 1}
HasMissing(XX, f) == \E p \in 1..Len(XX) : XX[p][f] = NaN

\* S = {survived, died, died, died}, X = (x2, x2, x3, x1)
WorkedX == << [embarked |-> 2, adult |-> 1], [embarked |-> 2, adult |-> 1],
              [embarked |-> 3, adult |-> 1], [embarked |-> 1, adult |-> 1] >>
WorkedY == [index |-> <<0, 1, 2, 3>>, values |-> <<1, 0, 0, 0>>]

\* no ID3 construction under way
ID3Idle ==
    /\ candidates = {}
    /\ tree = <<>>
    /\ stack = <<>>
    /\ id3pc = "idle"
    /\ prev = <<>>

\* SGDClassifier(loss='log', random_state=1) before any fit: calls counts
\* its partial_fit calls, t its training examples seen, classes_ is empty
\* until the classes are declared
Unfitted(params) == [params |-> params, calls |-> 0, t |-> 0, classes_ |-> <<>>]
NoCall == [on |-> 0, X |-> <<>>, y |-> <<>>, classes |-> <<>>]

\* no call of batch_train made, no estimator built
BatchIdle ==
    /\ clf = 0
    /\ fnames = <<>>
    /\ labels = <<>>
    /\ iterations = 0
    /\ batchsize = 0
    /\ estimators = <<>>
    /\ c_clf = 0
    /\ range_i = 0
    /\ i = 0
    /\ rnd_idx = <<>>
    /\ documents = <<>>
    /\ fitted = NoCall
    /\ returned = 0
    /\ bpc = "idle"
    /\ open_files = <<>>

\* no call of info_gain made yet
InfoGainIdle ==
    /\ pc = "idle"
    /\ feature = "embarked"
    /\ n = 0
    /\ values = <<>>
    /\ ivalue = 0
    /\ feature_counts = <<>>
    /\ E = <<>>
    /\ new_y = <<>>
    /\ class_counts = <<>>
    /\ gain = 0
    /\ result = [f \in Features |-> NoResult]
    /\ chosen = "none"

Init ==
    /\ \/ \E idx \in RetainedLabels :
            /\ X \in [1..Len(idx) -> RowSet]
            /\ \E cls \in [1..Len(idx) -> Classes] : y = [index |-> idx, values |-> cls]
       \/ X = WorkedX /\ y = WorkedY
       \/ \E k \in 1..MaxRows :
            /\ X \in [1..k -> MissingRowSet]
            /\ HasMissing(X, "embarked")
            /\ \E cls \in [1..k -> Classes] :
                   y = [index |-> [j \in 1..k |-> j - 1], values |-> cls]
    /\ InfoGainIdle
    /\ ID3Idle
    /\ BatchIdle

\* ------------------------------------------------------------ actions ---
\* info_gain(X, y, feature), up to the loop: the locals are created.
Enter(f, gain0) ==
    /\ pc \in {"idle", "returned", "raised"}
    /\ chosen = "none"
    /\ feature' = f
    /\ gain' = gain0
    /\ n' = Len(X)
    /\ values' \in SetAsList(Column(X, f))
    /\ feature_counts' = Zeros(Len(values'))
    /\ E' = Zeros(Len(values'))
    /\ ivalue' = 0
    /\ new_y' = <<>>
    /\ class_counts' = <<>>
    /\ pc' = "loop"
    /\ UNCHANGED <<X, y, result, chosen>>
    /\ UNCHANGED outsideInfoGain

\* a variant that keeps the accumulator of the previous call
CallStale(f) == Enter(f, gain)

\* a variant that divides by n before the loop
CallDivides(f) ==
    IF Len(X) = 0
    THEN /\ pc \in {"idle", "returned", "raised"}
         /\ chosen = "none"
              /\ feature' = f
         /\ pc' = "raised"
         /\ result' = [result EXCEPT ![f] = [kind |-> "ZeroDivisionError", value |-> 0]]
         /\ UNCHANGED <<X, y, n, values, ivalue, feature_counts, E, new_y,
                        class_counts, gain, chosen>>
         /\ UNCHANGED outsideInfoGain
    ELSE Enter(f, 0)

Call(f) == Enter(f, 0)

\* one pass of "for value in values" in which every y[i] is found
Iterate ==
    /\ pc = "loop"
    /\ ivalue < Len(values)
    /\ ~NewYRaises(X, y, feature, values[ivalue + 1])
    /\ LET value == values[ivalue + 1]
           ny == NewY(X, y, feature, value)
           fc == feature_counts[ivalue + 1] + Len(ny)
           cc == ClassCounts(ClassValues(ny), ny)
           new_entropy == entropy(Probabilities(cc))
           e == E[ivalue + 1] + new_entropy
       IN  /\ new_y' = ny
           /\ feature_counts' = [feature_counts EXCEPT ![ivalue + 1] = fc]
           /\ class_counts' = cc
           /\ E' = [E EXCEPT ![ivalue + 1] = e]
           /\ gain' = GainAccum(gain, fc, n, e)
    /\ ivalue' = ivalue + 1
    /\ UNCHANGED <<X, y, pc, feature, n, values, result, chosen>>
    /\ UNCHANGED outsideInfoGain

\* a pass in which some y[i] has no such label: KeyError leaves the call
RaiseKeyError ==
    /\ pc = "loop"
    /\ ivalue < Len(values)
    /\ NewYRaises(X, y, feature, values[ivalue + 1])
    /\ pc' = "raised"
    /\ result' = [result EXCEPT ![feature] = [kind |-> "KeyError", value |-> 0]]
    /\ UNCHANGED <<X, y, feature, n, values, ivalue, feature_counts, E, new_y,
                   class_counts, gain, chosen>>
    /\ UNCHANGED outsideInfoGain

\* return gain
Return ==
    /\ pc = "loop"
    /\ ivalue = Len(values)
    /\ pc' = "returned"
    /\ result' = [result EXCEPT ![feature] = [kind |-> "value", value |-> gain]]
    /\ UNCHANGED <<X, y, feature, n, values, ivalue, feature_counts, E, new_y,
                   class_counts, gain, chosen>>
    /\ UNCHANGED outsideInfoGain

\* "the ID3 algorithm computes the information gain for each variable,
\*  selecting the one with the highest value"
ChooseVariable ==
    /\ pc = "returned"
    /\ chosen = "none"
    /\ \A f \in Features : result[f].kind = "value"
    /\ \E f \in Features :
        /\ \A g \in Features : result[f].value >= result[g].value
        /\ chosen' = f
    /\ UNCHANGED <<X, y, pc, feature, n, values, ivalue, feature_counts, E, new_y,
                   class_counts, gain, result>>
    /\ UNCHANGED outsideInfoGain

Next ==
    \/ \E f \in Features : Call(f)
    \/ Iterate
    \/ RaiseKeyError
    \/ Return
    \/ ChooseVariable

Spec == Init /\ [][Next]_vars

\* ================================================================ ID3 ===
\* The ID3 algorithm as the notebook states it:
\*   if all response data have the same class: return leaf with data label
\*   else if no features: return leaf with most common label
\*   else: choose variable X' that maximizes information gain to be a node,
\*         add branch from node for each value of X',
\*         for each branch: calculate S_x by removing X' from S,
\*                          set S = S_x and call algorithm again
\* A call is [path, rows, feats]: the branches taken from the root, the
\* positions in X of the examples of the current subset S (in order) and the
\* candidate features left.  The recursion is run with an explicit stack.

\* the labels of a subset
LabelsOf(rows) == [k \in 1..Len(rows) |-> y.values[rows[k]]]

\* the current subset as a dataset of its own
SubX(rows) == [k \in 1..Len(rows) |-> X[rows[k]]]
SubY(rows) == [index |-> [k \in 1..Len(rows) |-> k - 1], values |-> LabelsOf(rows)]

CountOf(rows, c) == Cardinality({k \in 1..Len(rows) : y.values[rows[k]] = c})

\* "most common label": the source names no tie-break, any of them
LeastCommon(rows) == {c \in Classes : \A d \in Classes : CountOf(rows, c) <= CountOf(rows, d)}
MostCommon(rows) == {c \in Classes : \A d \in Classes : CountOf(rows, c) >= CountOf(rows, d)}

\* "all response data have the same class"
Pure(c) == c.rows # <<>> /\ AllSameLabels(LabelsOf(c.rows))

\* "else if no features"
NoFeaturesRuleEarly(c) == ~Pure(c) /\ Cardinality(c.feats) <= 1
NoFeaturesRule(c) == ~Pure(c) /\ c.feats = {}

\* "else"
SplitRuleFirst(c) == c.feats # {}
SplitRule(c) == ~Pure(c) /\ c.feats # {}

\* "choose variable X' that maximizes information gain": any maximizer
Maximizers(c) ==
    {f \in c.feats : \A g \in c.feats :
        G(SubX(c.rows), SubY(c.rows), f) >= G(SubX(c.rows), SubY(c.rows), g)}

\* "add branch from node for each value of X'": the values X' takes in S
BranchValuesDomain(c, f) == FeatureValues(f)
BranchValues(c, f) == {X[c.rows[k]][f] : k \in 1..Len(c.rows)}

\* "calculate S_x by removing X' from S"
ChildRowsAll(c, f, v) == c.rows
ChildRows(c, f, v) == SelectSeq(c.rows, LAMBDA p : X[p][f] = v)
ChildFeatsKeep(c, f) == c.feats
ChildFeats(c, f) == c.feats \ {f}

Leaf(c, label, rule) ==
    [kind |-> "Leaf", label |-> label, feature |-> "none", rule |-> rule,
     rows |-> c.rows, feats |-> c.feats]
Internal(c, f) ==
    [kind |-> "Internal", label |-> -1, feature |-> f, rule |-> "split",
     rows |-> c.rows, feats |-> c.feats]

\* the recursive calls of a split, one per branch
ChildCalls(c, f) ==
    LET vs == SortedSeq(BranchValues(c, f))
    IN  [k \in 1..Len(vs) |->
            [path |-> Append(c.path, <<f, vs[k]>>),
             rows |-> ChildRows(c, f, vs[k]),
             feats |-> ChildFeats(c, f)]]

\* the inputs of a construction: a non-empty dataset, any candidate features
InitID3 ==
    /\ \E k \in 1..MaxRows :
        /\ X \in [1..k -> RowSet]
        /\ \E cls \in [1..k -> Classes] :
               y = [index |-> [j \in 1..k |-> j - 1], values |-> cls]
    /\ InfoGainIdle
    /\ BatchIdle
    /\ candidates \in SUBSET Features
    /\ tree = <<>>
    /\ stack = <<>>
    /\ id3pc = "idle"
    /\ prev = <<>>

\* the algorithm is called on the whole dataset (once more after a first
\* construction, whose tree the caller keeps in prev)
ID3Start ==
    /\ id3pc \in {"idle", "done"}
    /\ prev = <<>>
    /\ prev' = tree
    /\ tree' = <<>>
    /\ stack' = << [path |-> <<>>, rows |-> [p \in 1..Len(X) |-> p], feats |-> candidates] >>
    /\ id3pc' = "building"
    /\ UNCHANGED <<X, y, infoVars, batchVars, candidates>>

\* return leaf with data label
LeafPure ==
    /\ id3pc = "building" /\ stack # <<>>
    /\ LET c == Head(stack)
       IN  /\ Pure(c)
           /\ tree' = tree @@ (c.path :> Leaf(c, y.values[c.rows[1]], "pure"))
    /\ stack' = Tail(stack)
    /\ UNCHANGED <<X, y, infoVars, batchVars, candidates, id3pc, prev>>

\* return leaf with most common label
LeafNoFeatures ==
    /\ id3pc = "building" /\ stack # <<>>
    /\ LET c == Head(stack)
       IN  /\ NoFeaturesRule(c)
           /\ \E label \in MostCommon(c.rows) :
                 tree' = tree @@ (c.path :> Leaf(c, label, "nofeatures"))
    /\ stack' = Tail(stack)
    /\ UNCHANGED <<X, y, infoVars, batchVars, candidates, id3pc, prev>>

\* choose X', make the node, one recursive call per branch
Split ==
    /\ id3pc = "building" /\ stack # <<>>
    /\ LET c == Head(stack)
       IN  /\ SplitRule(c)
           /\ \E f \in Maximizers(c) :
                 /\ tree' = tree @@ (c.path :> Internal(c, f))
                 /\ stack' = ChildCalls(c, f) \o Tail(stack)
    /\ UNCHANGED <<X, y, infoVars, batchVars, candidates, id3pc, prev>>

\* the outermost call returns the tree
ID3Return ==
    /\ id3pc = "building" /\ stack = <<>>
    /\ id3pc' = "done"
    /\ UNCHANGED <<X, y, infoVars, batchVars, candidates, tree, stack, prev>>

NextID3 ==
    \/ ID3Start
    \/ LeafPure
    \/ LeafNoFeatures
    \/ Split
    \/ ID3Return

SpecID3 == InitID3 /\ [][NextID3]_vars

\* ======================================================== batch_train ===
\* clone(clf): a new unfitted estimator with the same parameters
clone(e) == Unfitted(e.params)

\* whether partial_fit raises ValueError: classes must be given on the first
\* call, and must equal classes_ when given on a later one
PartialFitRejects(e, classes) ==
    \/ e.classes_ = <<>> /\ classes = <<>>
    \/ e.classes_ # <<>> /\ classes # <<>> /\ classes # e.classes_

\* the estimator after partial_fit(X=Xb, y=yb, classes=classes)
partial_fit(e, Xb, yb, classes) ==
    [e EXCEPT !.calls = @ + 1,
              !.t = @ + Len(Xb),
              !.classes_ = IF @ = <<>> THEN classes ELSE @]

\* np.unique of a batch's labels
UniqueLabels(yb) == SortedSeq({yb[k] : k \in 1..Len(yb)})

\* fnames: one file per review; a file is known by its number and reading
\* it gives the review of that number
ReviewFiles(nd) == [p \in 1..nd |-> p]

\* sgd = SGDClassifier(...) and the arguments of a call of batch_train:
\* the estimator passed is fresh or has been fitted before; fnames and
\* labels are two arguments, each of its own length
InitBatch ==
    /\ X = <<>>
    /\ y = [index |-> <<>>, values |-> <<>>]
    /\ InfoGainIdle
    /\ ID3Idle
    /\ clf = 1
    /\ estimators \in { <<Unfitted("log")>>,
                        <<partial_fit(Unfitted("log"), <<1>>, <<1>>, <<0, 1>>)>> }
    /\ \E nf \in 1..MaxDocs : fnames = ReviewFiles(nf)
    /\ \E nd \in 1..MaxDocs : labels \in [1..nd -> Classes]
    /\ iterations \in 0..MaxIterations
    /\ batchsize \in 1..MaxBatch
    /\ c_clf = 0
    /\ range_i = 0
    /\ i = 0
    /\ rnd_idx = <<>>
    /\ documents = <<>>
    /\ fitted = NoCall
    /\ returned = 0
    /\ bpc = "idle"
    /\ open_files = <<>>

\* c_clf = clf in place of c_clf = clone(clf)
batch_train_alias ==
    /\ bpc = "idle"
    /\ c_clf' = clf
    /\ range_i' = 0
    /\ bpc' = "loop"
    /\ UNCHANGED <<clf, fnames, labels, iterations, batchsize, estimators, i,
                   rnd_idx, documents, fitted, returned, open_files>>
    /\ UNCHANGED <<X, y, infoVars, id3Vars>>

\* vec = HashingVectorizer(...); idx = np.arange(labels.shape[0]);
\* c_clf = clone(clf); rng = np.random.RandomState(seed=random_seed)
batch_train ==
    /\ bpc = "idle"
    /\ estimators' = Append(estimators, clone(estimators[clf]))
    /\ c_clf' = Len(estimators) + 1
    /\ range_i' = 0
    /\ bpc' = "loop"
    /\ UNCHANGED <<clf, fnames, labels, iterations, batchsize, i, rnd_idx,
                   documents, fitted, returned, open_files>>
    /\ UNCHANGED <<X, y, infoVars, id3Vars>>

\* the step below with idx = np.arange(len(fnames))
NextBatchOverFnames ==
    /\ bpc = "loop"
    /\ range_i < iterations
    /\ i' = range_i
    /\ range_i' = range_i + 1
    /\ rnd_idx' \in [1..batchsize -> 0..(Len(fnames) - 1)]
    /\ documents' = <<>>
    /\ bpc' = "reading"
    /\ UNCHANGED <<clf, fnames, labels, iterations, batchsize, estimators,
                   c_clf, fitted, returned, open_files>>
    /\ UNCHANGED <<X, y, infoVars, id3Vars>>

\* for i in range(iterations): rnd_idx = rng.choice(idx, size=batchsize);
\* documents = []  (the generator's draws are any indices, with replacement)
NextBatch ==
    /\ bpc = "loop"
    /\ range_i < iterations
    /\ i' = range_i
    /\ range_i' = range_i + 1
    /\ rnd_idx' \in [1..batchsize -> 0..(Len(labels) - 1)]
    /\ documents' = <<>>
    /\ bpc' = "reading"
    /\ UNCHANGED <<clf, fnames, labels, iterations, batchsize, estimators,
                   c_clf, fitted, returned, open_files>>
    /\ UNCHANGED <<X, y, infoVars, id3Vars>>

\* the inner loop written with the outer loop's counter: range's position
\* follows the variable i
OpenDocumentSharedCounter ==
    /\ bpc = "reading"
    /\ Len(documents) < Len(rnd_idx)
    /\ i' = rnd_idx[Len(documents) + 1]
    /\ range_i' = i' + 1
    /\ IF i' < Len(fnames)
       THEN /\ open_files' = Append(open_files, fnames[i' + 1])
            /\ bpc' = "opened"
       ELSE /\ bpc' = "indexerror"
            /\ UNCHANGED open_files
    /\ UNCHANGED <<clf, fnames, labels, iterations, batchsize, estimators,
                   c_clf, rnd_idx, documents, fitted, returned>>
    /\ UNCHANGED <<X, y, infoVars, id3Vars>>

\* for i in rnd_idx: with open(fnames[i], 'r') as f:
\* (IndexError when fnames has no element i)
OpenDocument ==
    /\ bpc = "reading"
    /\ Len(documents) < Len(rnd_idx)
    /\ i' = rnd_idx[Len(documents) + 1]
    /\ IF i' < Len(fnames)
       THEN /\ open_files' = Append(open_files, fnames[i' + 1])
            /\ bpc' = "opened"
       ELSE /\ bpc' = "indexerror"
            /\ UNCHANGED open_files
    /\ UNCHANGED <<clf, fnames, labels, iterations, batchsize, estimators,
                   c_clf, range_i, rnd_idx, documents, fitted, returned>>
    /\ UNCHANGED <<X, y, infoVars, id3Vars>>

\* f = open(fnames[i], 'r'); documents.append(f.read()) with no with-block:
\* nothing closes f
ReadDocumentLeaveOpen ==
    /\ bpc = "opened"
    /\ \/ /\ documents' = Append(documents, open_files[Len(open_files)])
          /\ bpc' = "reading"
       \/ /\ bpc' = "ioerror"
          /\ UNCHANGED documents
    /\ UNCHANGED <<clf, fnames, labels, iterations, batchsize, estimators,
                   c_clf, range_i, i, rnd_idx, fitted, returned, open_files>>
    /\ UNCHANGED <<X, y, infoVars, id3Vars>>

\* documents.append(f.read()) and the end of the with-block, which closes f
\* whether the read returned the review or raised
ReadDocument ==
    /\ bpc = "opened"
    /\ \/ /\ documents' = Append(documents, open_files[Len(open_files)])
          /\ bpc' = "reading"
       \/ /\ bpc' = "ioerror"
          /\ UNCHANGED documents
    /\ open_files' = SubSeq(open_files, 1, Len(open_files) - 1)
    /\ UNCHANGED <<clf, fnames, labels, iterations, batchsize, estimators,
                   c_clf, range_i, i, rnd_idx, fitted, returned>>
    /\ UNCHANGED <<X, y, infoVars, id3Vars>>

\* batch_labels = labels[np.unique(rnd_idx)]: each index once, sorted
BatchLabelsUnique ==
    LET u == SortedSeq({rnd_idx[k] : k \in 1..Len(rnd_idx)})
    IN  [k \in 1..Len(u) |-> labels[u[k] + 1]]

\* batch_labels = labels[rnd_idx]
BatchLabels == [k \in 1..Len(rnd_idx) |-> labels[rnd_idx[k] + 1]]

\* the step below for the classes argument `classes`
PartialFitWith(classes) ==
    LET batch_labels == BatchLabels
        X_batch == documents
    IN  /\ bpc = "reading"
        /\ Len(documents) = Len(rnd_idx)
        /\ fitted' = [on |-> c_clf, X |-> X_batch, y |-> batch_labels,
                      classes |-> classes]
        /\ IF PartialFitRejects(estimators[c_clf], classes)
           THEN /\ bpc' = "raised"
                /\ UNCHANGED estimators
           ELSE /\ bpc' = "loop"
                /\ estimators' =
                     [estimators EXCEPT ![c_clf] =
                         partial_fit(@, X_batch, batch_labels, classes)]
        /\ UNCHANGED <<clf, fnames, labels, iterations, batchsize, c_clf,
                       range_i, i, rnd_idx, documents, returned, open_files>>
        /\ UNCHANGED <<X, y, infoVars, id3Vars>>

\* partial_fit without the classes argument spelled out: the classes are
\* those of the batch
PartialFitInferred == PartialFitWith(UniqueLabels(BatchLabels))

\* batch_labels = labels[rnd_idx]; X_batch = vec.transform(documents);
\* c_clf.partial_fit(X=X_batch, y=batch_labels, classes=[0, 1])
PartialFit == PartialFitWith(<<0, 1>>)

\* return c_clf
ReturnClone ==
    /\ bpc = "loop"
    /\ range_i >= iterations
    /\ returned' = c_clf
    /\ bpc' = "returned"
    /\ UNCHANGED <<clf, fnames, labels, iterations, batchsize, estimators,
                   c_clf, range_i, i, rnd_idx, documents, fitted, open_files>>
    /\ UNCHANGED <<X, y, infoVars, id3Vars>>

NextBatchTrain ==
    \/ batch_train
    \/ NextBatch
    \/ OpenDocument
    \/ ReadDocument
    \/ PartialFit
    \/ ReturnClone

SpecBatch == InitBatch /\ [][NextBatchTrain]_vars

\* ------------------------------------------------------------- claims ---
Finished(f) == result[f].kind # "none"
AllSame(s) == \A a, b \in 1..Len(s) : s[a] = s[b]
\* the labels by position of the k-th partition of the running call
Part(k) == LabelsAt(X, y, feature, values[k])

\* C1 (as stated): whenever info_gain returns, the value returned is the
\* information gain G(S,X) = Entropy(S) - sum_x #(S_x)/#(S) Entropy(S_x).
C1_ReturnsInformationGain ==
    pc = "returned" => Abs(result[feature].value - G(X, y, feature)) <= Tol

\* C2 (as stated): the feature selected as the one with the highest returned
\* value maximizes the information gain G(S,X) over the candidate features.
C2_ChosenMaximizesGain ==
    chosen # "none" => \A g \in Features : G(X, y, chosen) + Tol >= G(X, y, g)

\* C3 (as stated): for a feature with a single observed value, info_gain
\* returns 0, whatever the label column.
C3_SingleValueGainZero ==
    (pc = "returned" /\ Len(values) = 1) => result[feature].value = 0

\* C4: the value returned by info_gain is never negative (and neither is the
\* accumulator gain at any point of a call).
C4_GainNonNegative ==
    /\ gain >= 0
    /\ \A f \in Features : result[f].kind = "value" => result[f].value >= 0
C4_Witness ==
    /\ pc = "returned"
    /\ Len(values) = 2
    /\ result[feature].value > 0

\* C5: a label list new_y that is all of one class gets entropy exactly 0,
\* and when every label of y is the same every partition entropy E[k] and
\* the accumulated sum are 0.
C5_SingleClassEntropyZero ==
    /\ (ivalue > 0 /\ AllSame(new_y)) => E[ivalue] = 0
    /\ AllSame(y.values) => (gain = 0 /\ \A k \in 1..Len(E) : E[k] = 0)
C5_Witness ==
    /\ pc = "returned"
    /\ Len(X) >= 2
    /\ Len(values) = 2
    /\ AllSame(y.values)
    /\ E = <<0, 0>>
    /\ result[feature] = [kind |-> "value", value |-> 0]

\* C6 (as stated): entropy is in bits, so a partition split 50/50 between
\* two classes has entropy 1.
C6_UniformBinaryEntropyOne ==
    (ivalue > 0 /\ Len(class_counts) = 2 /\ class_counts[1] = class_counts[2])
        => Abs(E[ivalue] - Scale) <= Tol

\* C7 (as stated): on the worked example info_gain computes a gain of
\* approximately 0.3113.
C7_WorkedExampleGain ==
    (X = WorkedX /\ y = WorkedY /\ feature = "embarked" /\ pc = "returned")
        => Abs(result[feature].value - 311300) <= Tol

\* C8 (as stated): on an empty dataset the call fails with an "empty input"
\* error instead of returning a number.
C8_EmptyInputFails ==
    \A f \in Features : (Len(X) = 0 /\ Finished(f)) => result[f].kind = "EmptyInputError"

\* C8 (amended): on an empty dataset info_gain raises nothing and returns 0,
\* without running the loop body.
C8_EmptyInputReturnsZero ==
    Len(X) = 0 =>
        /\ pc # "raised"
        /\ ivalue = 0
        /\ \A f \in Features : Finished(f) => result[f] = [kind |-> "value", value |-> 0]
C8_Witness ==
    /\ Len(X) = 0
    /\ pc = "returned"
    /\ result[feature] = [kind |-> "value", value |-> 0]

\* C9: a step of a call of info_gain changes neither X nor y nor anything
\* the caller holds other than the outcome of this call, and a call that
\* repeats an earlier call's arguments ends with the same outcome.
C9_Pure ==
    [][ (pc = "loop" \/ pc' = "loop") =>
            /\ X' = X
            /\ y' = y
            /\ chosen' = chosen
            /\ \A f \in Features \ {feature'} : result'[f] = result[f]
            /\ (pc' # "loop" /\ Finished(feature)) => result'[feature] = result[feature]
      ]_vars
\* a repeated call with the arguments of a finished one, about to return
C9_Witness ==
    /\ pc = "loop"
    /\ ivalue = Len(values)
    /\ Len(values) = 2
    /\ gain > 0
    /\ result[feature] = [kind |-> "value", value |-> gain]

\* C10 (as stated): on a row subset of a larger dataset no lookup y[i] fails
\* and the labels gathered for a partition are those of its own rows.
C10_RowsPairedWithOwnLabels ==
    /\ pc # "raised"
    /\ \A f \in Features : result[f].kind # "KeyError"
    /\ (pc = "loop" /\ ivalue > 0) => new_y = Part(ivalue)

\* ------------------------------------------------------- claims on ID3 ---
ID3Done == id3pc = "done"
Mixed(rows) == ~AllSame(LabelsOf(rows))
\* every call made so far: built into the tree, or still on the stack
BuiltCalls == {[path |-> p, rows |-> tree[p].rows, feats |-> tree[p].feats] : p \in DOMAIN tree}
PendingCalls == {stack[k] : k \in 1..Len(stack)}
AllCalls == BuiltCalls \cup PendingCalls
IsChildOf(q, p) == Len(q) = Len(p) + 1 /\ SubSeq(q, 1, Len(p)) = p
\* label is (one of) the most frequent among the examples at positions ps
IsMostFrequent(label, ps) ==
    \A d \in Classes : Cardinality({q \in ps : y.values[q] = label})
                          >= Cardinality({q \in ps : y.values[q] = d})
RowSetOf(rows) == {rows[k] : k \in 1..Len(rows)}

\* C11: a construction on a dataset whose examples all carry one label
\* returns a single Leaf holding that label, whatever the candidate features.
C11_PureDatasetSingleLeaf ==
    (ID3Done /\ AllSame(y.values)) =>
        /\ DOMAIN tree = {<<>>}
        /\ tree[<<>>].kind = "Leaf"
        /\ tree[<<>>].label = y.values[1]
C11_Witness ==
    /\ ID3Done
    /\ AllSame(y.values)
    /\ Len(X) >= 2
    /\ candidates = Features
    /\ tree[<<>>].kind = "Leaf"

\* C12 (as stated): the construction is deterministic: a second construction
\* on the same dataset and features returns the same tree as the first.
C12_SameTreeOnEveryRun ==
    (ID3Done /\ prev # <<>>) => tree = prev

\* where the construction had no choice: one most common label at every
\* no-features leaf, one maximizer of the gain at every internal node
TieFree(t) ==
    \A p \in DOMAIN t :
        /\ t[p].rule = "nofeatures" =>
              \E c \in Classes : \A d \in Classes \ {c} :
                  CountOf(t[p].rows, c) > CountOf(t[p].rows, d)
        /\ t[p].kind = "Internal" =>
              \A g \in t[p].feats \ {t[p].feature} :
                  G(SubX(t[p].rows), SubY(t[p].rows), t[p].feature)
                      > G(SubX(t[p].rows), SubY(t[p].rows), g)

\* C12 (amended): with mixed labels and no candidate feature the node is a
\* Leaf holding a most common label of the subset (any of the tied ones), and
\* a second construction returns the same tree when the first met no tie.
C12_MostCommonLeaf ==
    /\ \A p \in DOMAIN tree :
          (Mixed(tree[p].rows) /\ tree[p].feats = {}) =>
              /\ tree[p].kind = "Leaf"
              /\ IsMostFrequent(tree[p].label, RowSetOf(tree[p].rows))
    /\ (ID3Done /\ prev # <<>> /\ TieFree(prev)) => tree = prev
C12_Witness ==
    /\ ID3Done
    /\ prev # <<>>
    /\ TieFree(prev)
    /\ \E p \in DOMAIN tree :
          /\ tree[p].rule = "nofeatures"
          /\ Len(tree[p].rows) = 3

\* C13 (as stated): with one candidate feature left and mixed labels the
\* node is a Leaf holding the majority label.
C13_OneFeatureLeaf ==
    \A p \in DOMAIN tree :
        (Cardinality(tree[p].feats) = 1 /\ Mixed(tree[p].rows)) =>
            /\ tree[p].kind = "Leaf"
            /\ IsMostFrequent(tree[p].label, RowSetOf(tree[p].rows))

\* C13 (amended): with one candidate feature left and mixed labels the node
\* is an Internal node splitting on that feature, and all its children are
\* Leaves, each holding a most common label of its own subset.
C13_OneFeatureSplits ==
    \A p \in DOMAIN tree :
        (Cardinality(tree[p].feats) = 1 /\ Mixed(tree[p].rows)) =>
            /\ tree[p].kind = "Internal"
            /\ tree[p].feats = {tree[p].feature}
            /\ ID3Done =>
                  /\ \E q \in DOMAIN tree : IsChildOf(q, p)
                  /\ \A q \in DOMAIN tree : IsChildOf(q, p) =>
                        /\ tree[q].kind = "Leaf"
                        /\ IsMostFrequent(tree[q].label, RowSetOf(tree[q].rows))
C13_Witness ==
    /\ ID3Done
    /\ Cardinality(candidates) = 1
    /\ Mixed(tree[<<>>].rows)
    /\ tree[<<>>].kind = "Internal"
    /\ \E q \in DOMAIN tree : IsChildOf(q, <<>>) /\ tree[q].rule = "nofeatures"

\* C14: an Internal node on X* has exactly one child per value of X*
\* observed in its subset, none built from an empty subset, and the child for
\* v is built from exactly the examples with X* = v, with X* removed from the
\* candidate features.
C14_OneChildPerObservedValue ==
    \A p \in DOMAIN tree : tree[p].kind = "Internal" =>
        LET f == tree[p].feature
            kids == {c \in AllCalls : IsChildOf(c.path, p)}
        IN  /\ \A r \in RowSetOf(tree[p].rows) :
                  Cardinality({c \in kids : c.path[Len(c.path)] = <<f, X[r][f]>>}) = 1
            /\ \A c \in kids :
                  /\ c.path[Len(c.path)][1] = f
                  /\ c.rows # <<>>
                  /\ c.rows = SelectSeq(tree[p].rows,
                                  LAMBDA r : X[r][f] = c.path[Len(c.path)][2])
                  /\ c.feats = tree[p].feats \ {f}
C14_Witness ==
    /\ ID3Done
    /\ candidates = Features
    /\ tree[<<>>].kind = "Internal"
    /\ Cardinality({q \in DOMAIN tree : IsChildOf(q, <<>>)}) = 2
    /\ \E q \in DOMAIN tree : IsChildOf(q, <<>>) /\ tree[q].kind = "Internal"

\* C16: walking the built tree by a training example's feature values finds
\* a child at every Internal node and ends in a Leaf whose label is a most
\* common label of the training examples routed to that Leaf.
RECURSIVE RouteFrom(_, _)
RouteFrom(r, path) ==
    IF path \notin DOMAIN tree THEN [found |-> FALSE, at |-> path]
    ELSE IF tree[path].kind = "Leaf" THEN [found |-> TRUE, at |-> path]
    ELSE RouteFrom(r, Append(path, <<tree[path].feature, X[r][tree[path].feature]>>))
Route(r) == RouteFrom(r, <<>>)
RoutedTo(path) == {q \in 1..Len(X) : Route(q) = [found |-> TRUE, at |-> path]}

C16_RoundTrip ==
    ID3Done =>
        \A r \in 1..Len(X) :
            /\ Route(r).found
            /\ IsMostFrequent(tree[Route(r).at].label, RoutedTo(Route(r).at))
C16_Witness ==
    /\ ID3Done
    /\ \E p \in DOMAIN tree :
          /\ Len(p) >= 1
          /\ tree[p].rule = "nofeatures"
          /\ Cardinality(RoutedTo(p)) >= 2

\* C15: the construction terminates: while it is under way one of the rules
\* applies to the next call, and the calls made plus a bound on the calls
\* still to make never exceed a number fixed by the input; no feature is
\* split on twice along a path, so no call is deeper than the number of
\* initial features; and a call ends in a Leaf exactly when its subset has a
\* single class or no candidate feature.
NoRepeatedSplit ==
    \A c \in AllCalls :
        /\ \A a, b \in 1..Len(c.path) : a # b => c.path[a][1] # c.path[b][1]
        /\ Len(c.path) <= Cardinality(candidates)
StopsExactlyAtLeaves ==
    \A p \in DOMAIN tree :
        tree[p].kind = "Leaf" <=> (~Mixed(tree[p].rows) \/ tree[p].feats = {})
\* one of the three rules applies to the call on top of the stack
NeverStuck ==
    (id3pc = "building" /\ stack # <<>>) =>
        \/ Pure(Head(stack))
        \/ NoFeaturesRule(Head(stack)) /\ MostCommon(Head(stack).rows) # {}
        \/ SplitRule(Head(stack)) /\ Maximizers(Head(stack)) # {}
\* a bound on the calls still to make: a call on r rows with k features
\* makes at most 1 + 2rk calls
WorkLeft ==
    (IF id3pc = "building" THEN 1 ELSE 0)
    + SumSeq([k \in 1..Len(stack) |->
                 1 + 2 * Len(stack[k].rows) * Cardinality(stack[k].feats)])
BoundedWork ==
    Cardinality(DOMAIN tree) + WorkLeft <= 2 + 2 * Len(X) * Cardinality(candidates)
C15_Terminates ==
    /\ NoRepeatedSplit
    /\ StopsExactlyAtLeaves
    /\ NeverStuck
    /\ BoundedWork
C15_Witness ==
    /\ ID3Done
    /\ candidates = Features
    /\ \E p \in DOMAIN tree : Len(p) = 2 /\ tree[p].rule = "nofeatures"
    /\ \E p \in DOMAIN tree : Len(p) = 1 /\ tree[p].rule = "pure"

\* C17 (as stated): when an example misses the value of the feature, the
\* call fails with an "inconsistent schema" error, and no example is left
\* out of the partitions.
C17_MissingValueFails ==
    (HasMissing(X, feature) /\ pc \in {"returned", "raised"}) =>
        /\ result[feature].kind = "InconsistentSchemaError"
        /\ SumSeq(feature_counts) = n

\* ----------------------------------------------- claims on batch_train ---
\* C18: batch_train makes exactly `iterations` partial_fit calls, each on
\* `batchsize` documents drawn (with replacement) from the files, with the
\* labels of those files, iterations * batchsize documents in all; the inner
\* loop's assignments to i leave the count of outer iterations alone.
C18_ExactlyIterationsBatches ==
    /\ bpc = "returned" =>
          /\ estimators[returned].calls = iterations
          /\ estimators[returned].t = iterations * batchsize
          /\ range_i = iterations
    /\ bpc = "loop" => estimators[c_clf].calls = range_i
    /\ bpc \in {"reading", "opened"} => estimators[c_clf].calls = range_i - 1
    /\ c_clf # 0 => estimators[c_clf].t = estimators[c_clf].calls * batchsize
    /\ fitted # NoCall =>
          /\ Len(fitted.X) = batchsize
          /\ Len(fitted.y) = batchsize
          /\ \A k \in 1..batchsize :
                /\ fitted.X[k] \in 1..Len(fnames)
                /\ fitted.y[k] = labels[fitted.X[k]]

\* a return after the last of several batches, one that read the same review
\* twice, with i left by the inner loop on another value than range gave it
C18_Witness ==
    /\ bpc = "returned"
    /\ iterations = MaxIterations
    /\ batchsize = MaxBatch
    /\ fitted.X[1] = fitted.X[2]
    /\ i # iterations - 1

\* C19: batch_train builds one clone, before the loop; every partial_fit
\* call is on the clone; what it returns is the clone; the estimator the
\* caller passed is never changed.
C19_OnlyCloneTrained ==
    [][ /\ clf' = clf
        /\ estimators'[clf] = estimators[clf]
        /\ Len(estimators') # Len(estimators) =>
              /\ bpc = "idle"
              /\ Len(estimators') = Len(estimators) + 1
              /\ c_clf' = Len(estimators')
              /\ estimators'[c_clf'] = Unfitted(estimators[clf].params)
        /\ fitted' # fitted => (fitted'.on = c_clf /\ fitted'.on # clf)
        /\ bpc' = "returned" => (returned' = c_clf /\ returned' # clf)
      ]_vars

\* a return, after some batches, of a call that was given a fitted estimator
C19_Witness ==
    /\ bpc = "returned"
    /\ iterations = MaxIterations
    /\ estimators[clf].calls = 1
    /\ estimators[returned].calls = iterations

\* C20: every partial_fit call of batch_train, the first included, gives
\* classes=[0, 1], whatever labels the batch holds; no call is refused and
\* the clone knows both classes from its first batch on.
C20_ClassesDeclaredInAdvance ==
    /\ bpc # "raised"
    /\ fitted # NoCall => fitted.classes = <<0, 1>>
    /\ (c_clf # 0 /\ estimators[c_clf].calls > 0) =>
          estimators[c_clf].classes_ = <<0, 1>>

\* the first batch of a call holds one class only, the labels hold both
C20_Witness ==
    /\ fitted # NoCall
    /\ estimators[fitted.on].calls = 1
    /\ AllSame(fitted.y)
    /\ \E a, b \in 1..Len(labels) : labels[a] # labels[b]
    /\ fitted.classes = <<0, 1>>

\* ------------------------------------- further claims on info_gain ---
\* the partitions of a finished call cover the rows exactly: each row's
\* value is one entry of values, and each count is that of its rows
CoversExactly ==
    /\ \A p \in 1..Len(X) :
          Cardinality({k \in 1..Len(values) : values[k] = X[p][feature]}) = 1
    /\ \A k \in 1..Len(values) :
          feature_counts[k] =
              Cardinality({p \in 1..Len(X) : X[p][feature] = values[k]})
    /\ SumSeq(feature_counts) = n
    /\ n = Len(X)

\* the weights feature_counts[k]/n add up to 1 (as an exact fraction)
WeightsSumToOne == n # 0 /\ SumSeq(feature_counts) = n

\* C21 (as stated): when no value of the feature is missing, a finished
\* call has counted every row in exactly one partition, the counts add up
\* to n and the weights add up to 1.
C21_PartitionsCover ==
    (pc = "returned" /\ ~HasMissing(X, feature)) =>
        (CoversExactly /\ WeightsSumToOne)

\* C21 (amended): the same, the weights adding up to 1 when the dataset is
\* not empty (an empty dataset has no partition and no weight).
C21_PartitionsCoverNonEmpty ==
    (pc = "returned" /\ ~HasMissing(X, feature)) =>
        (CoversExactly /\ (Len(X) > 0 => WeightsSumToOne))

\* a finished call on three or more rows with two values of the feature
C21_Witness ==
    /\ pc = "returned"
    /\ ~HasMissing(X, feature)
    /\ Len(X) >= 3
    /\ Len(values) = 2

\* info_gain(XX, yy, f) as a function of its arguments: KeyError if a lookup
\* of some partition fails, else the sum over the values of
\* feature_counts/n * E (a sum, so the same for every order of the values)
InfoGainOutcome(XX, yy, f) ==
    LET vs == SortedSeq({XX[p][f] : p \in 1..Len(XX)} \ {NaN})
        term(value) ==
            LET ny == NewY(XX, yy, f, value)
            IN  (Len(ny) * entropy(Probabilities(ClassCounts(ClassValues(ny), ny))))
                    \div Len(XX)
    IN  IF \E k \in 1..Len(vs) : NewYRaises(XX, yy, f, vs[k])
        THEN [kind |-> "KeyError", value |-> 0]
        ELSE [kind |-> "value", value |-> SumSeq([k \in 1..Len(vs) |-> term(vs[k])])]

\* the orders of k rows
RowOrders(k) ==
    {s \in [1..k -> 1..k] : \A a, b \in 1..k : a # b => s[a] # s[b]}

\* the rows of X and the entries of y (row label and class) in another order
ReorderX(perm) == [p \in 1..Len(X) |-> X[perm[p]]]
ReorderY(perm) == [index |-> [p \in 1..Len(X) |-> y.index[perm[p]]],
                   values |-> [p \in 1..Len(X) |-> y.values[perm[p]]]]

\* C22 (as stated): the outcome of a call is that of the call on the same
\* examples in any other order (rows of X moved together with their entries
\* of y), whatever the order in which the sets were enumerated.
C22_OrderIndependent ==
    pc \in {"returned", "raised"} =>
        \A perm \in RowOrders(Len(X)) :
            InfoGainOutcome(ReorderX(perm), ReorderY(perm), feature) = result[feature]

\* ------------------------------------- further claims on batch_train ---
\* C23: in every iteration the documents read so far are, position by
\* position, those of the files fnames[rnd_idx[k]]; partial_fit is given
\* len(rnd_idx) documents, and its k-th label is labels[rnd_idx[k]], also
\* when an index occurs more than once in rnd_idx.
C23_BatchAligned ==
    /\ bpc \in {"reading", "opened"} =>
          /\ Len(documents) <= Len(rnd_idx)
          /\ \A k \in 1..Len(documents) : documents[k] = fnames[rnd_idx[k] + 1]
    /\ (fitted # NoCall /\ bpc \in {"loop", "returned"}) =>
          /\ Len(fitted.X) = Len(rnd_idx)
          /\ Len(fitted.y) = Len(rnd_idx)
          /\ \A k \in 1..Len(rnd_idx) :
                /\ fitted.X[k] = fnames[rnd_idx[k] + 1]
                /\ fitted.y[k] = labels[rnd_idx[k] + 1]

\* a batch fitted in which one index occurs twice, or in which the indices
\* are not in increasing order, drawn from reviews of both classes
C23_Witness ==
    /\ bpc = "loop"
    /\ fitted # NoCall
    /\ Len(rnd_idx) >= 2
    /\ rnd_idx[1] >= rnd_idx[2]
    /\ \E a, b \in 1..Len(labels) : labels[a] # labels[b]

\* C24: batch_train holds at most one file open: a file is open only
\* between its opening and the end of its with-block (the file fnames[i]),
\* and none is open at any other point: before the next file is opened,
\* after a read that raised, when partial_fit is called, on return.
C24_AtMostOneFileOpen ==
    /\ Len(open_files) <= 1
    /\ bpc = "opened" => open_files = <<fnames[i + 1]>>
    /\ bpc # "opened" => open_files = <<>>

\* a read that raised in a later batch, after other files were read
C24_Witness ==
    /\ bpc = "ioerror"
    /\ fitted # NoCall
    /\ Len(documents) >= 1
    /\ open_files = <<>>

\* C25: every index drawn lies in 0 .. len(labels)-1, whatever the length of
\* fnames; so when fnames is at least as long as labels no fnames[i] fails,
\* and labels[rnd_idx] never does.
C25_IndicesWithinLabels ==
    /\ \A k \in 1..Len(rnd_idx) : rnd_idx[k] \in 0..(Len(labels) - 1)
    /\ Len(fnames) >= Len(labels) => bpc # "indexerror"
    /\ fitted # NoCall => \A k \in 1..Len(fitted.y) : fitted.y[k] \in Classes

\* a return after batches drawn with more files than labels
C25_Witness ==
    /\ bpc = "returned"
    /\ iterations = MaxIterations
    /\ Len(fnames) > Len(labels)
    /\ fitted # NoCall

====
